---- MODULE Spec2Model ----
(***************************************************************************)
(* Text buffer and code-editing core of gpui-component:                    *)
(*   - RopeExt (crates/ui/src/input/rope_ext.rs): byte / UTF-16 / row      *)
(*     coordinate conversions over a ropey Rope,                           *)
(*   - TextWrapper (crates/ui/src/input/text_wrapper.rs): the incremental  *)
(*     soft-wrap line cache,                                               *)
(*   - InputState::handle_completion_trigger                               *)
(*     (crates/ui/src/input/lsp/completions.rs): the completion request    *)
(*     dispatcher.                                                         *)
(*   - InputState hover definition and apply_lsp_edits                     *)
(*     (crates/ui/src/input/lsp), Marker (crates/ui/src/input/marker.rs),  *)
(*   - execute_path of the wef tool (crates/wef/tool/src/commands/build.rs)*)
(*                                                                         *)
(* A text is its UTF-8 byte sequence.  Every byte is a token: the lead     *)
(* byte of a character names the character, the continuation bytes of a    *)
(* multi-byte character are the token "c".  Byte offsets are 0-based, as   *)
(* in the source; the byte at offset i is t[i + 1].                        *)
(***************************************************************************)
EXTENDS Integers, Sequences, FiniteSets, TLC

VARIABLES
    \* the buffer, and the last call made: a RopeExt call on the buffer,
    \* apply_lsp_edits, or execute_path of the wef tool on a workspace
    rope, call,
    \* TextWrapper fields
    text, lines, longest_row, soft_lines, wrap_width, font,
    \* the edit the last TextWrapper update was given, and the updates so far
    last_edit, edits,
    \* InputState completion dispatch
    cursor, focused, completion_inserting, completion_provider,
    context_menu, context_menu_task,
    \* the requests issued so far, the last completion request that resolved,
    \* and how the last handle_completion_trigger call ended
    next_request, shown_log, trigger_log,
    \* the most recent handle_completion_trigger or hide_context_menu call
    lsp_call,
    \* InputState hover definition: the provider, the definition held, the
    \* task in flight, the requests issued so far and the last one that resolved
    definition_provider, hover_definition, hover_task, next_hover_request, hover_log,
    \* the most recent handle_hover_definition call: its offset, the hover
    \* definition and task it found, and the task it left
    hover_call,
    \* a Marker of the editor, and the last operation on it or on the buffer
    marker, marker_log

ropeVars == <<rope, call>>
wrapVars == <<text, lines, longest_row, soft_lines, wrap_width, font, last_edit, edits>>
lspVars  == <<cursor, focused, completion_inserting, completion_provider,
              context_menu, context_menu_task, next_request, shown_log, trigger_log,
              lsp_call>>
hoverVars == <<definition_provider, hover_definition, hover_task, next_hover_request,
               hover_log, hover_call>>
markerVars == <<marker, marker_log>>
vars     == <<rope, call, text, lines, longest_row, soft_lines, wrap_width, font,
              last_edit, edits, cursor, focused, completion_inserting,
              completion_provider, context_menu, context_menu_task,
              next_request, shown_log, trigger_log, lsp_call, definition_provider,
              hover_definition, hover_task, next_hover_request, hover_log,
              hover_call, marker, marker_log>>

(***************************************************************************)
(* Bounds of the model.                                                    *)
(***************************************************************************)
\* characters in a buffer the RopeExt calls are made on
MaxRopeChars == 3
\* bytes in the buffer of the TextWrapper
MaxTextLen == 3
\* edits made to the buffer of the TextWrapper in one run
MaxEdits == 2
\* characters of the replacement text of one edit
MaxNewChars == 2
\* widest wrap width, in character cells
MaxWrapWidth == 2
\* completion requests issued in one run
MaxRequests == 3
\* largest cursor offset of the completion model
MaxCursor == 2
\* characters of a buffer that provider edits are applied to
MaxEditChars == 2
\* TextEdits in one apply_lsp_edits call
MaxTextEdits == 1
\* TextEdits in one apply_lsp_edits call of the runs with lists of edits
MaxListEdits == 2
\* packages of a workspace and targets of a package given to execute_path
MaxPackages == 2
MaxTargets == 2
\* characters of a buffer the mouse hovers over, and definition requests
MaxHoverChars == 3
MaxHoverRequests == 2
\* characters of a buffer with a Marker, and the lines and columns given to it
MaxMarkerChars == 3
MaxLineColumn == 2

\* Option<Range<usize>>::None, and Some(start..end)
NoRange == [some |-> FALSE, start |-> 0, end |-> 0]
SomeRange(s, e) == [some |-> TRUE, start |-> s, end |-> e]

(***************************************************************************)
(* Characters.  "a": ASCII letter; "_": underscore; "LF", "CR": the line   *)
(* break characters; "zh": a 3-byte CJK letter (one UTF-16 unit); "em": a  *)
(* 4-byte emoji outside the BMP (a surrogate pair in UTF-16).              *)
(***************************************************************************)
Cont == "c"

Chars == {"a", "_", "LF", "CR", "zh", "em"}

\* char::len_utf8
len_utf8(ch) == CASE ch = "zh" -> 3 [] ch = "em" -> 4 [] OTHER -> 1

\* char::len_utf16
len_utf16(ch) == IF ch = "em" THEN 2 ELSE 1

\* char::is_alphanumeric
is_alphanumeric(ch) == ch \in {"a", "zh"}

\* the UTF-8 encoding of one character
EncodeChar(ch) == <<ch>> \o [i \in 1..(len_utf8(ch) - 1) |-> Cont]

RECURSIVE Encode(_)
Encode(cs) == IF cs = <<>> THEN <<>> ELSE EncodeChar(Head(cs)) \o Encode(Tail(cs))

\* all texts of at most n characters over the alphabet A
TextsOver(A, n) == { Encode(cs) : cs \in UNION { [1..k -> A] : k \in 0..n } }

Min(a, b) == IF a < b THEN a ELSE b
Max(a, b) == IF a > b THEN a ELSE b

\* usize::saturating_sub
saturating_sub(a, b) == IF a > b THEN a - b ELSE 0

RECURSIVE SumSeq(_)
SumSeq(s) == IF s = <<>> THEN 0 ELSE Head(s) + SumSeq(Tail(s))

(***************************************************************************)
(* ropey::Rope, as RopeExt uses it (LineType::LF_CR: LF, CR and the pair   *)
(* CRLF are line breaks, CRLF being a single one).                         *)
(***************************************************************************)
\* Rope::slice(s..e), 0-based, half-open
Slice(t, s, e) == SubSeq(t, s + 1, e)

\* Rope::is_char_boundary
is_char_boundary(t, i) == i = 0 \/ i = Len(t) \/ (i < Len(t) /\ t[i + 1] # Cont)

CharBoundaries(t) == { i \in 0..Len(t) : is_char_boundary(t, i) }

\* Rope::floor_char_boundary
floor_char_boundary(t, i) ==
    CHOOSE b \in CharBoundaries(t) :
        b <= i /\ \A b2 \in CharBoundaries(t) : b2 <= i => b2 <= b

\* Rope::ceil_char_boundary
ceil_char_boundary(t, i) ==
    CHOOSE b \in CharBoundaries(t) :
        b >= i /\ \A b2 \in CharBoundaries(t) : b2 >= i => b2 >= b

\* the 1-based indices of the bytes that end a line break
BreakEnds(t) ==
    { j \in 1..Len(t) :
        \/ t[j] = "LF"
        \/ t[j] = "CR" /\ ~(j < Len(t) /\ t[j + 1] = "LF") }

\* Rope::len_lines(LineType::LF_CR)
len_lines(t) == Cardinality(BreakEnds(t)) + 1

\* Rope::byte_to_line_idx(offset, LineType::LF_CR): the breaks that end at or
\* before the offset; an offset between CR and LF is still on the CR's line
byte_to_line_idx(t, offset) == Cardinality({ j \in BreakEnds(t) : j <= offset })

\* Rope::line_to_byte_idx(row, LineType::LF_CR), row in 0..=len_lines
line_to_byte_idx(t, row) ==
    IF row = 0 THEN 0
    ELSE IF row >= len_lines(t) THEN Len(t)
    ELSE CHOOSE j \in BreakEnds(t) : Cardinality({ k \in BreakEnds(t) : k <= j }) = row

\* Rope::line(row, LineType::LF_CR): the row with its line break
line_of(t, row) == Slice(t, line_to_byte_idx(t, row), line_to_byte_idx(t, row + 1))

\* the number of characters of a text (RopeSlice::chars().count())
chars_count(t) == Cardinality({ i \in 1..Len(t) : t[i] # Cont })

\* the UTF-16 length of a text (Rope::len_utf16)
len_utf16_of(t) == SumSeq([i \in 1..Len(t) |-> IF t[i] = Cont THEN 0 ELSE len_utf16(t[i])])

\* Rope::byte_to_utf16_idx: the UTF-16 units before the character the byte is in
byte_to_utf16_idx(t, offset) == len_utf16_of(Slice(t, 0, floor_char_boundary(t, offset)))

\* Rope::utf16_to_byte_idx: the start of the character the UTF-16 unit is in
utf16_to_byte_idx(t, offset_utf16) ==
    CHOOSE b \in CharBoundaries(t) :
        /\ len_utf16_of(Slice(t, 0, b)) <= offset_utf16
        /\ \A b2 \in CharBoundaries(t) :
               len_utf16_of(Slice(t, 0, b2)) <= offset_utf16 => b2 <= b

(***************************************************************************)
(* RopeExt                                                                 *)
(***************************************************************************)
\* clip_offset rounding down whatever the bias
clip_offset_right_floor(t, offset, bias) ==
    IF offset > Len(t) THEN Len(t)
    ELSE floor_char_boundary(t, offset)

\* RopeExt::clip_offset
clip_offset(t, offset, bias) ==
    IF offset > Len(t) THEN Len(t)
    ELSE IF is_char_boundary(t, offset) THEN offset
    ELSE IF bias = "Left" THEN floor_char_boundary(t, offset)
    ELSE ceil_char_boundary(t, offset)

\* lines_len that does not count an empty last line
lines_len_without_last_empty(t) ==
    IF Len(t) > 0 /\ Len(t) \in BreakEnds(t) THEN len_lines(t) - 1 ELSE len_lines(t)

\* RopeExt::lines_len
lines_len(t) == len_lines(t)

\* RopeExt::slice_row: the row without its trailing '\n' (a '\r' is kept)
slice_row(t, row) ==
    IF row >= lines_len(t) THEN <<>>
    ELSE LET line == line_of(t, row)
         IN  IF Len(line) > 0 /\ line[Len(line)] = "LF"
             THEN Slice(line, 0, saturating_sub(Len(line), 1))
             ELSE line

\* RopeExt::line_len
line_len(t, row) == Len(slice_row(t, row))

\* RopeExt::offset_to_point
offset_to_point(t, offset) ==
    LET off == clip_offset(t, offset, "Left")
        row == byte_to_line_idx(t, off)
        line_start == line_to_byte_idx(t, row)
    IN  [row |-> row, column |-> saturating_sub(off, line_start)]

\* RopeExt::point_to_offset
point_to_offset(t, point) ==
    IF point.row >= lines_len(t) THEN Len(t)
    ELSE line_to_byte_idx(t, point.row) + point.column

\* RopeExt::line_start_offset
line_start_offset(t, row) == point_to_offset(t, [row |-> row, column |-> 0])

\* RopeExt::line_end_offset
line_end_offset(t, row) ==
    IF row > lines_len(t) THEN Len(t)
    ELSE line_start_offset(t, row) + line_len(t, row)

\* the byte length of the first n characters of a text
\* (chars().take(n).map(len_utf8).sum())
TakeCharsLen(t, n) ==
    LET starts == { i \in 0..(Len(t) - 1) : t[i + 1] # Cont }
    IN  IF n >= Cardinality(starts) THEN Len(t)
        ELSE CHOOSE b \in starts : Cardinality({ s \in starts : s < b }) = n

\* position_to_offset adding Position.character as a byte count
position_to_offset_bytes(t, pos) == line_start_offset(t, pos.line) + pos.character

\* position_to_offset taking Position.character in UTF-16 code units
position_to_offset_utf16_units(t, pos) ==
    LET line == slice_row(t, pos.line)
    IN  line_start_offset(t, pos.line) + utf16_to_byte_idx(line, Min(pos.character, len_utf16_of(line)))

\* RopeExt::position_to_offset
position_to_offset(t, pos) ==
    LET line == slice_row(t, pos.line)
    IN  line_start_offset(t, pos.line) + TakeCharsLen(line, pos.character)

\* offset_to_position counting Position.character in UTF-16 code units
offset_to_position_utf16_units(t, offset) ==
    LET point == offset_to_point(t, offset)
        line == slice_row(t, point.row)
    IN  [line |-> point.row, character |-> byte_to_utf16_idx(line, point.column)]

\* RopeExt::offset_to_position
offset_to_position(t, offset) ==
    LET point == offset_to_point(t, offset)
        line == slice_row(t, point.row)
        off == utf16_to_byte_idx(line, byte_to_utf16_idx(line, point.column))
    IN  [line |-> point.row, character |-> chars_count(Slice(line, 0, off))]

\* offset_utf16_to_offset counting every character as one UTF-16 unit
offset_utf16_to_offset_no_surrogates(t, offset_utf16) ==
    IF offset_utf16 > len_utf16_of(t) THEN Len(t)
    ELSE LET bs == { b \in CharBoundaries(t) : chars_count(Slice(t, 0, b)) <= offset_utf16 }
         IN  CHOOSE b \in bs : \A b2 \in bs : b2 <= b

\* RopeExt::offset_utf16_to_offset
offset_utf16_to_offset(t, offset_utf16) ==
    IF offset_utf16 > len_utf16_of(t) THEN Len(t)
    ELSE utf16_to_byte_idx(t, offset_utf16)

\* RopeExt::offset_to_offset_utf16
offset_to_offset_utf16(t, offset) ==
    IF offset > Len(t) THEN len_utf16_of(t)
    ELSE byte_to_utf16_idx(t, offset)

\* the word-character test of word_range
IsWordByte(b) == is_alphanumeric(b) \/ b = "_"

\* the bytes of the run of word characters that ends at the offset
\* (chars_at(offset).reversed(), collected while word characters)
RECURSIVE LeftRun(_, _)
LeftRun(t, offset) ==
    IF offset = 0 THEN 0
    ELSE LET s == floor_char_boundary(t, offset - 1)
         IN  IF IsWordByte(t[s + 1]) THEN (offset - s) + LeftRun(t, s) ELSE 0

\* the bytes of the run of word characters that starts at the offset
\* (chars_at(offset).take_while(..))
RECURSIVE RightRun(_, _)
RightRun(t, offset) ==
    IF offset >= Len(t) THEN 0
    ELSE IF IsWordByte(t[offset + 1])
         THEN LET e == ceil_char_boundary(t, offset + 1)
              IN  (e - offset) + RightRun(t, e)
         ELSE 0

\* word_range that does not expand to the left of the offset
word_range_right_only(t, offset) ==
    IF offset >= Len(t) THEN NoRange
    ELSE LET off == clip_offset(t, offset, "Left")
             end == off + RightRun(t, off)
         IN  IF off = end THEN NoRange ELSE SomeRange(off, end)

\* RopeExt::word_range
word_range(t, offset) ==
    IF offset >= Len(t) THEN NoRange
    ELSE LET off == clip_offset(t, offset, "Left")
             start == saturating_sub(off, LeftRun(t, off))
             end == off + RightRun(t, off)
         IN  IF start = end THEN NoRange ELSE SomeRange(start, end)

\* RopeExt::word_at
word_at(t, offset) ==
    LET range == word_range(t, offset)
    IN  IF range.some THEN Slice(t, range.start, range.end) ELSE <<>>

(***************************************************************************)
(* RopeExt calls on a buffer.  `call` records the last call: the function, *)
(* its argument, its result and, when the argument was the result of the   *)
(* call before, the argument of that call (origin, -1 otherwise).          *)
(***************************************************************************)
RopeTexts == TextsOver(Chars, MaxRopeChars)

\* byte offsets handed to RopeExt: every offset of the buffer and one past
Offsets(t) == 0..(Len(t) + 1)

NoCall == [fn |-> "none", arg |-> 0, bias |-> "Left", ret |-> 0, origin |-> -1]

\* A run makes one call, or a round trip of two.  The calls do not change the
\* buffer, so every call is reachable this way.
NoCallYet == call.fn = "none"

WrapIdle ==
    /\ text = <<>>
    /\ lines = <<>>
    /\ longest_row = [row |-> 0, len |-> 0]
    /\ soft_lines = 0
    /\ wrap_width = 0
    /\ font = "F0"
    /\ last_edit = [kind |-> "new"]
    /\ edits = 0

\* Option<ContextMenu>::None
NoMenu == [some |-> FALSE, open |-> FALSE, trigger_start_offset |-> -1,
           query |-> <<0, 0>>, offset |-> 0, items |-> 0]

NoneResolved == [req |-> 0, latest |-> 0, outcome |-> "none", offset |-> 0, result |-> "Ok"]

\* no call yet.  tick flips on every call; is_trigger is the provider's
\* answer in the last handle_completion_trigger call; hidden_before is the
\* number of the first request not issued before the last hide_context_menu,
\* and dropped the requests whose task that call dropped
NoLspCall == [tick |-> FALSE, fn |-> "none", is_trigger |-> FALSE,
              hidden_before |-> 0, dropped |-> {}]

LspIdle ==
    /\ cursor = 0
    /\ focused = TRUE
    /\ completion_inserting = FALSE
    /\ completion_provider = FALSE
    /\ context_menu = NoMenu
    /\ context_menu_task = {}
    /\ next_request = 1
    /\ shown_log = NoneResolved
    /\ trigger_log = "none"
    /\ lsp_call = NoLspCall

\* Option<HoverDefinition>::None
NoHoverDefinition == [some |-> FALSE, symbol_range |-> [start |-> 0, end |-> 0], locations |-> 0]

NoHoverResolved == [req |-> 0, outcome |-> "none", result |-> "Ok", dropped |-> {}]

NoHoverCall == [made |-> FALSE, offset |-> 0, before |-> NoHoverDefinition,
                task_before |-> {}, task_after |-> {}, issued |-> FALSE]

HoverIdle ==
    /\ definition_provider = FALSE
    /\ hover_definition = NoHoverDefinition
    /\ hover_task = {}
    /\ next_hover_request = 1
    /\ hover_log = NoHoverResolved
    /\ hover_call = NoHoverCall

\* no Marker made yet
NoMarker == [made |-> FALSE, start |-> [line |-> 1, column |-> 1],
             end |-> [line |-> 1, column |-> 1], range |-> NoRange]

MarkerIdle ==
    /\ marker = NoMarker
    /\ marker_log = [op |-> "none"]

RopeInit ==
    /\ rope \in RopeTexts
    /\ call = NoCall
    /\ WrapIdle
    /\ LspIdle
    /\ HoverIdle
    /\ MarkerIdle

ClipOffset ==
    /\ NoCallYet
    /\ \E offset \in Offsets(rope), bias \in {"Left", "Right"} :
        /\ call' = [fn |-> "clip_offset", arg |-> offset, bias |-> bias,
                    ret |-> clip_offset(rope, offset, bias), origin |-> -1]
        /\ UNCHANGED <<rope, wrapVars, lspVars, hoverVars, markerVars>>

OffsetToPosition ==
    /\ NoCallYet
    /\ \E offset \in Offsets(rope) :
        /\ call' = [fn |-> "offset_to_position", arg |-> offset, bias |-> "Left",
                    ret |-> offset_to_position(rope, offset), origin |-> -1]
        /\ UNCHANGED <<rope, wrapVars, lspVars, hoverVars, markerVars>>

\* position_to_offset of the Position the last offset_to_position returned
PositionToOffsetOfResult ==
    /\ call.fn = "offset_to_position"
    /\ call' = [fn |-> "position_to_offset", arg |-> call.ret, bias |-> "Left",
                ret |-> position_to_offset(rope, call.ret), origin |-> call.arg]
    /\ UNCHANGED <<rope, wrapVars, lspVars, hoverVars, markerVars>>

OffsetToOffsetUtf16 ==
    /\ NoCallYet
    /\ \E offset \in Offsets(rope) :
        /\ call' = [fn |-> "offset_to_offset_utf16", arg |-> offset, bias |-> "Left",
                    ret |-> offset_to_offset_utf16(rope, offset), origin |-> -1]
        /\ UNCHANGED <<rope, wrapVars, lspVars, hoverVars, markerVars>>

\* offset_utf16_to_offset of the UTF-16 offset the last offset_to_offset_utf16 returned
OffsetUtf16ToOffsetOfResult ==
    /\ call.fn = "offset_to_offset_utf16"
    /\ call.origin = -1
    /\ call' = [fn |-> "offset_utf16_to_offset", arg |-> call.ret, bias |-> "Left",
                ret |-> offset_utf16_to_offset(rope, call.ret), origin |-> call.arg]
    /\ UNCHANGED <<rope, wrapVars, lspVars, hoverVars, markerVars>>

OffsetUtf16ToOffset ==
    /\ NoCallYet
    /\ \E offset_utf16 \in 0..(len_utf16_of(rope) + 1) :
        /\ call' = [fn |-> "offset_utf16_to_offset", arg |-> offset_utf16, bias |-> "Left",
                    ret |-> offset_utf16_to_offset(rope, offset_utf16), origin |-> -1]
        /\ UNCHANGED <<rope, wrapVars, lspVars, hoverVars, markerVars>>

\* offset_to_offset_utf16 of the byte offset the last offset_utf16_to_offset returned
OffsetToOffsetUtf16OfResult ==
    /\ call.fn = "offset_utf16_to_offset"
    /\ call.origin = -1
    /\ call' = [fn |-> "offset_to_offset_utf16", arg |-> call.ret, bias |-> "Left",
                ret |-> offset_to_offset_utf16(rope, call.ret), origin |-> call.arg]
    /\ UNCHANGED <<rope, wrapVars, lspVars, hoverVars, markerVars>>

WordRange ==
    /\ NoCallYet
    /\ \E offset \in Offsets(rope) :
        /\ call' = [fn |-> "word_range", arg |-> offset, bias |-> "Left",
                    ret |-> word_range(rope, offset), origin |-> -1]
        /\ UNCHANGED <<rope, wrapVars, lspVars, hoverVars, markerVars>>

WordAt ==
    /\ NoCallYet
    /\ \E offset \in Offsets(rope) :
        /\ call' = [fn |-> "word_at", arg |-> offset, bias |-> "Left",
                    ret |-> word_at(rope, offset), origin |-> -1]
        /\ UNCHANGED <<rope, wrapVars, lspVars, hoverVars, markerVars>>

\* the Positions handed to position_to_offset: lines and characters in and
\* past the buffer
Positions(t) ==
    [line : 0..(lines_len(t) + 1), character : 0..(MaxRopeChars + 1)]

PositionToOffset ==
    /\ NoCallYet
    /\ \E pos \in Positions(rope) :
        /\ call' = [fn |-> "position_to_offset", arg |-> pos, bias |-> "Left",
                    ret |-> position_to_offset(rope, pos), origin |-> -1]
        /\ UNCHANGED <<rope, wrapVars, lspVars, hoverVars, markerVars>>

LinesLen ==
    /\ NoCallYet
    /\ call' = [fn |-> "lines_len", arg |-> 0, bias |-> "Left",
                ret |-> lines_len(rope), origin |-> -1]
    /\ UNCHANGED <<rope, wrapVars, lspVars, hoverVars, markerVars>>

\* the rows handed to the row functions: every row of the buffer and two past
Rows(t) == 0..(lines_len(t) + 1)

SliceRow ==
    /\ NoCallYet
    /\ \E row \in Rows(rope) :
        /\ call' = [fn |-> "slice_row", arg |-> row, bias |-> "Left",
                    ret |-> slice_row(rope, row), origin |-> -1]
        /\ UNCHANGED <<rope, wrapVars, lspVars, hoverVars, markerVars>>

LineStartOffset ==
    /\ NoCallYet
    /\ \E row \in Rows(rope) :
        /\ call' = [fn |-> "line_start_offset", arg |-> row, bias |-> "Left",
                    ret |-> line_start_offset(rope, row), origin |-> -1]
        /\ UNCHANGED <<rope, wrapVars, lspVars, hoverVars, markerVars>>

LineEndOffset ==
    /\ NoCallYet
    /\ \E row \in Rows(rope) :
        /\ call' = [fn |-> "line_end_offset", arg |-> row, bias |-> "Left",
                    ret |-> line_end_offset(rope, row), origin |-> -1]
        /\ UNCHANGED <<rope, wrapVars, lspVars, hoverVars, markerVars>>

RopeNext ==
    \/ PositionToOffset
    \/ LinesLen
    \/ SliceRow
    \/ LineStartOffset
    \/ LineEndOffset
    \/ ClipOffset
    \/ OffsetToPosition
    \/ PositionToOffsetOfResult
    \/ OffsetToOffsetUtf16
    \/ OffsetUtf16ToOffsetOfResult
    \/ OffsetUtf16ToOffset
    \/ OffsetToOffsetUtf16OfResult
    \/ WordRange
    \/ WordAt

SpecRope == RopeInit /\ [][RopeNext]_vars

(***************************************************************************)
(* Properties of the RopeExt calls.                                        *)
(***************************************************************************)
\* the character under a byte offset starts at s: s is a lead byte and the
\* bytes after it up to the offset are continuation bytes
StartsCharOf(t, s, offset) ==
    /\ s <= offset
    /\ t[s + 1] # Cont
    /\ \A k \in (s + 1)..offset : t[k + 1] = Cont

\* e is the first char boundary after an offset inside a character
EndsCharOf(t, e, offset) ==
    /\ e > offset
    /\ \A k \in offset..(e - 1) : t[k + 1] = Cont
    /\ (e = Len(t) \/ t[e + 1] # Cont)

\* C4: position_to_offset(offset_to_position(o)) == o for every char-boundary
\* byte offset o in 0..=len()
C4_PositionRoundTrip ==
    (call.fn = "position_to_offset" /\ call.origin \in CharBoundaries(rope))
        => call.ret = call.origin

\* a round trip was made from an offset at a row's end, after a character
\* outside the BMP and a multi-byte letter, on a row that is not the first
C4_Witness ==
    /\ call.fn = "position_to_offset"
    /\ call.origin \in CharBoundaries(rope)
    /\ call.origin = Len(rope)
    /\ call.arg.line = 1
    /\ call.arg.character = 1
    /\ rope = Encode(<<"zh", "LF", "em">>)

\* a UTF-16 offset that does not fall inside a surrogate pair
ValidUtf16(t, x) == \E b \in CharBoundaries(t) : len_utf16_of(Slice(t, 0, b)) = x

\* C5: offset_to_offset_utf16(offset_utf16_to_offset(x)) == x for every UTF-16
\* offset x in 0..=len_utf16 not inside a surrogate pair, and
\* offset_utf16_to_offset(offset_to_offset_utf16(o)) == o for every
\* char-boundary byte offset o in 0..=len()
C5_Utf16RoundTrip ==
    /\ (call.fn = "offset_to_offset_utf16" /\ call.origin # -1
            /\ ValidUtf16(rope, call.origin))
        => call.ret = call.origin
    /\ (call.fn = "offset_utf16_to_offset" /\ call.origin \in CharBoundaries(rope))
        => call.ret = call.origin

\* a byte offset after a surrogate-pair character was taken to UTF-16 and back
C5_Witness ==
    /\ call.fn = "offset_utf16_to_offset"
    /\ call.origin = 5
    /\ call.arg = 3
    /\ rope = Encode(<<"em", "a", "zh">>)

PrevCharStart(t, b) == CHOOSE s \in 0..(b - 1) : StartsCharOf(t, s, b - 1)

\* C9: whenever word_range(offset) is Some(s..e): s < e,
\* s <= clip_offset(offset, Left) <= e, every character of s..e is
\* alphanumeric or '_', and the run is maximal; word_at(offset) is the text of
\* that range, and the empty string when word_range(offset) is None
C9_WordRange ==
    /\ (call.fn = "word_range" /\ call.ret.some) =>
         LET s == call.ret.start
             e == call.ret.end
             off == clip_offset(rope, call.arg, "Left")
         IN  /\ s < e
             /\ s <= off /\ off <= e
             /\ s \in CharBoundaries(rope) /\ e \in CharBoundaries(rope)
             /\ \A i \in s..(e - 1) : rope[i + 1] = Cont \/ IsWordByte(rope[i + 1])
             /\ s = 0 \/ ~IsWordByte(rope[PrevCharStart(rope, s) + 1])
             /\ e = Len(rope) \/ ~IsWordByte(rope[e + 1])
    /\ call.fn = "word_at" =>
         LET r == word_range(rope, call.arg)
         IN  call.ret = IF r.some THEN Slice(rope, r.start, r.end) ELSE <<>>

\* word_range was asked inside a multi-byte letter with word characters on
\* both sides of it
C9_Witness ==
    /\ call.fn = "word_range"
    /\ rope = Encode(<<"_", "zh", "a">>)
    /\ call.arg = 2
    /\ call.ret = SomeRange(0, 5)

\* neither the character before the left-clipped offset nor the one at it is
\* a word character
BothSidesEmpty(t, offset) ==
    LET off == clip_offset(t, offset, "Left")
    IN  /\ off = 0 \/ ~IsWordByte(t[PrevCharStart(t, off) + 1])
        /\ off = Len(t) \/ ~IsWordByte(t[off + 1])

\* C10: for every offset in 0..=len(), word_range(offset) is None if and only
\* if both sides are empty
C10_NoneIffBothSidesEmpty ==
    (call.fn = "word_range" /\ call.arg <= Len(rope))
        => (~call.ret.some <=> BothSidesEmpty(rope, call.arg))

\* the offsets at which a row starts: 0 and the offset after each line break
RowStartsUpTo(t, o) == {0} \cup { j \in BreakEnds(t) : j <= o }

\* the start of the row that contains the offset o
RowStartOf(t, o) == CHOOSE s \in RowStartsUpTo(t, o) : \A s2 \in RowStartsUpTo(t, o) : s2 <= s

\* C11: offset_to_position(o) returns the 0-based row containing o and, as
\* character, the number of Unicode scalar values between that row's start and
\* o; position_to_offset interprets Position.character in the same unit
C11_CharacterIsScalarCount ==
    /\ (call.fn = "offset_to_position" /\ call.arg \in CharBoundaries(rope)) =>
         /\ call.ret.line = Cardinality(RowStartsUpTo(rope, call.arg)) - 1
         /\ call.ret.character =
                chars_count(Slice(rope, RowStartOf(rope, call.arg), call.arg))
    /\ (call.fn = "position_to_offset" /\ call.origin = -1
            /\ call.arg.line < lines_len(rope)
            /\ call.arg.character <= chars_count(slice_row(rope, call.arg.line))) =>
         /\ call.ret \in CharBoundaries(rope)
         /\ call.ret >= line_start_offset(rope, call.arg.line)
         /\ chars_count(Slice(rope, line_start_offset(rope, call.arg.line), call.ret))
                = call.arg.character

\* the position of the offset after a character outside the BMP, on the
\* second row, was asked: the character counts as 1
C11_Witness ==
    /\ call.fn = "offset_to_position"
    /\ rope = Encode(<<"LF", "em", "a">>)
    /\ call.arg = 5
    /\ call.ret = [line |-> 1, character |-> 1]

\* every '\r' of the buffer is followed by '\n'
EveryCrBeforeLf(t) == \A j \in 1..Len(t) : t[j] = "CR" => (j < Len(t) /\ t[j + 1] = "LF")

\* C13: for every buffer in which each '\r' is followed by '\n', lines_len()
\* is 1 plus the number of '\n' characters
C13_LinesLen ==
    (call.fn = "lines_len" /\ EveryCrBeforeLf(rope))
        => call.ret = 1 + Cardinality({ j \in 1..Len(rope) : rope[j] = "LF" })

\* lines_len was asked of a buffer that holds a "\r\n" and ends in '\n'
C13_Witness ==
    /\ call.fn = "lines_len"
    /\ rope = <<"CR", "LF", "LF">>
    /\ call.ret = 3

\* C14: row slices and row offsets tile the buffer: slice_row(r) is the bytes
\* line_start_offset(r)..line_end_offset(r) and holds no '\n';
\* line_start_offset(0) = 0, line_start_offset(r+1) = line_end_offset(r) + 1,
\* line_end_offset(lines_len()-1) = len(); for a row >= lines_len() the slice
\* is empty and both offsets are len()
C14_RowsTileBuffer ==
    /\ call.fn = "slice_row" =>
         IF call.arg < lines_len(rope)
         THEN /\ call.ret = Slice(rope, line_start_offset(rope, call.arg),
                                  line_end_offset(rope, call.arg))
              /\ \A i \in 1..Len(call.ret) : call.ret[i] # "LF"
              /\ (line_end_offset(rope, call.arg) < Len(rope)
                    /\ rope[line_end_offset(rope, call.arg) + 1] = "LF"
                    /\ line_end_offset(rope, call.arg) > line_start_offset(rope, call.arg)
                    /\ rope[line_end_offset(rope, call.arg)] = "CR")
                 => call.ret[Len(call.ret)] = "CR"
         ELSE call.ret = <<>>
    /\ call.fn = "line_start_offset" =>
         /\ call.arg = 0 => call.ret = 0
         /\ (call.arg > 0 /\ call.arg < lines_len(rope))
                => call.ret = line_end_offset(rope, call.arg - 1) + 1
         /\ call.arg >= lines_len(rope) => call.ret = Len(rope)
    /\ call.fn = "line_end_offset" =>
         /\ call.arg = lines_len(rope) - 1 => call.ret = Len(rope)
         /\ call.arg >= lines_len(rope) => call.ret = Len(rope)

\* the end of a row: the offset before its '\n', or after the '\r' that ends
\* it, or the end of the buffer
RowEndOf(t, row) ==
    LET start == line_start_offset(t, row)
        ends == { e \in start..Len(t) :
                    \/ e = Len(t)
                    \/ t[e + 1] = "LF"
                    \/ (e > start /\ e \in BreakEnds(t)) }
    IN  CHOOSE e \in ends : \A e2 \in ends : e <= e2

\* C15: for every Position, position_to_offset returns an offset in 0..=len()
\* on a char boundary: a character past the row's end yields the row's end
\* offset, a line at or past lines_len() yields len()
C15_PositionToOffsetClamps ==
    (call.fn = "position_to_offset" /\ call.origin = -1) =>
        /\ call.ret \in CharBoundaries(rope)
        /\ call.arg.line >= lines_len(rope) => call.ret = Len(rope)
        /\ (call.arg.line < lines_len(rope)
                /\ call.arg.character > chars_count(slice_row(rope, call.arg.line)))
            => call.ret = RowEndOf(rope, call.arg.line)

\* a character past the end of a row that ends in "\r\n" was resolved: the
\* offset is the one before the '\n'
C15_Witness ==
    /\ call.fn = "position_to_offset"
    /\ call.origin = -1
    /\ rope = Encode(<<"zh", "CR", "LF">>)
    /\ call.arg = [line |-> 0, character |-> 4]
    /\ call.ret = 4


(***************************************************************************)
(* TextWrapper                                                             *)
(***************************************************************************)
\* the characters of the buffers the TextWrapper is given
WrapChars == {"a", "LF", "CR"}

\* Font: "F0" and "F1" are two shaping functions (see wrap_line)
Fonts == {"F0", "F1"}

\* Option<Pixels>: 0 is None, n > 0 is a width of n character cells
WrapWidths == 0..MaxWrapWidth

\* the byte offsets at which the characters of a text start, in order
RECURSIVE CharStarts(_, _)
CharStarts(t, from) ==
    IF from >= Len(t) THEN <<>>
    ELSE <<from>> \o CharStarts(t, ceil_char_boundary(t, from + 1))

\* The injected shaping function wrap_line(line_str, wrap_width): the
\* boundaries of the soft-wrapped rows.  Every character is one cell wide and a
\* row holds wrap_width cells.  Font "F0" reports the boundaries strictly
\* inside the line; font "F1" also reports a boundary at the line's end when
\* the last row is full.
wrap_line(line_str, width, f) ==
    LET starts == CharStarts(line_str, 0) \o <<Len(line_str)>>
        n == Len(starts) - 1
        last == IF f = "F1" THEN n ELSE n - 1
        ks == { k \in 1..n : k * width <= last }
    IN  [k \in 1..Cardinality(ks) |-> starts[k * width + 1]]

\* RopeExt::iter_lines: the lines of a rope, each without its '\n' (a '\r' is
\* kept); a line is a maximal run not containing '\n'
RECURSIVE iter_lines(_)
iter_lines(t) ==
    IF \A i \in 1..Len(t) : t[i] # "LF" THEN <<t>>
    ELSE LET i == CHOOSE i \in 1..Len(t) :
                      t[i] = "LF" /\ \A j \in 1..(i - 1) : t[j] # "LF"
         IN  <<SubSeq(t, 1, i - 1)>> \o iter_lines(SubSeq(t, i + 1, Len(t)))

\* the ranges start..boundary of the rows that end at a reported boundary
\* (_update, the loop over wrap_line's boundaries)
BoundaryRanges(bs) ==
    [k \in 1..Len(bs) |-> [start |-> IF k = 1 THEN 0 ELSE bs[k - 1], end |-> bs[k]]]

\* wrapped_lines without the rest of the line after the last boundary
wrapped_lines_without_rest(line_str, width, f) ==
    LET bs == IF width # 0 THEN wrap_line(line_str, width, f) ELSE <<>>
    IN  BoundaryRanges(bs)

\* the wrapped_lines of one line (_update, the body of the loop over the lines)
wrapped_lines_of(line_str, width, f) ==
    LET bs == IF width # 0 THEN wrap_line(line_str, width, f) ELSE <<>>
        prev_boundary_ix == IF bs = <<>> THEN 0 ELSE bs[Len(bs)]
    IN  IF prev_boundary_ix < Len(line_str) \/ prev_boundary_ix = 0
        THEN BoundaryRanges(bs) \o <<[start |-> prev_boundary_ix, end |-> Len(line_str)]>>
        ELSE BoundaryRanges(bs)

\* the LineItems of the lines of a slice (_update, the loop over iter_lines)
new_lines_of(slice, width, f) ==
    LET ls == iter_lines(slice)
    IN  [i \in 1..Len(ls) |->
            [line |-> ls[i], wrapped_lines |-> wrapped_lines_of(ls[i], width, f)]]

\* the rows of the old text the edit touches, clamped to the rows of lines
\* (_update, "Remove the old changed lines")
old_rows(w, range) ==
    LET last == saturating_sub(Len(w.lines), 1)
    IN  [start |-> Min(offset_to_point(w.text, range.start).row, last),
         end   |-> Min(offset_to_point(w.text, range.end).row, last)]

\* the rows of the changed text that hold the inserted text, and their bytes
\* (_update, "To add the new lines")
new_rows(changed_text, range, new_text) ==
    LET new_start_row == offset_to_point(changed_text, range.start).row
        new_end_row == offset_to_point(changed_text, range.start + Len(new_text)).row
    IN  [start_row |-> new_start_row,
         start |-> line_start_offset(changed_text, new_start_row),
         end   |-> line_end_offset(changed_text, new_end_row)]

\* the running longest row over the new lines, from the longest row kept
\* (_update, the comparison with longest_row_len in the loop)
RECURSIVE longest_of(_, _, _, _)
longest_of(new_lines, ix, new_start_row, longest) ==
    IF ix > Len(new_lines) THEN longest
    ELSE longest_of(new_lines, ix + 1, new_start_row,
                    IF Len(new_lines[ix].line) > longest.len
                    THEN [row |-> new_start_row + (ix - 1), len |-> Len(new_lines[ix].line)]
                    ELSE longest)

\* a splice that replaces the first changed row only
splice_first_row(ls, rows, new_lines) ==
    SubSeq(ls, 1, rows.start) \o new_lines \o SubSeq(ls, rows.start + 2, Len(ls))

\* Vec::splice(start..=end, new_lines), rows 0-based
splice(ls, rows, new_lines) ==
    SubSeq(ls, 1, rows.start) \o new_lines \o SubSeq(ls, rows.end + 2, Len(ls))

\* Rope::replace(range, new_text) (RopeExt::replace: remove, then insert)
replace(t, range, new_text) ==
    Slice(t, 0, range.start) \o new_text \o Slice(t, range.end, Len(t))

\* TextWrapper::_update, on the wrapper w (its fields as a record)
update(w, changed_text, range, new_text) ==
    LET rows == old_rows(w, range)
        kept_longest == IF rows.start <= w.longest_row.row /\ w.longest_row.row <= rows.end
                        THEN [row |-> 0, len |-> 0]
                        ELSE w.longest_row
        nr == new_rows(changed_text, range, new_text)
        new_lines == new_lines_of(Slice(changed_text, nr.start, nr.end), w.wrap_width, w.font)
        lines2 == IF Len(w.lines) = 0 THEN new_lines ELSE splice(w.lines, rows, new_lines)
    IN  [text |-> changed_text,
         lines |-> lines2,
         longest_row |-> longest_of(new_lines, 1, nr.start_row, kept_longest),
         soft_lines |-> SumSeq([i \in 1..Len(lines2) |-> Len(lines2[i].wrapped_lines)]),
         wrap_width |-> w.wrap_width,
         font |-> w.font]

\* TextWrapper::update_all
update_all(w, t) == update(w, t, [start |-> 0, end |-> Len(t)], t)

\* TextWrapper::new
new_wrapper(width, f) ==
    [text |-> <<>>, lines |-> <<>>, longest_row |-> [row |-> 0, len |-> 0],
     soft_lines |-> 0, wrap_width |-> width, font |-> f]

\* the TextWrapper of the current state
Wrapper ==
    [text |-> text, lines |-> lines, longest_row |-> longest_row,
     soft_lines |-> soft_lines, wrap_width |-> wrap_width, font |-> font]

SetWrapper(w) ==
    /\ text' = w.text
    /\ lines' = w.lines
    /\ longest_row' = w.longest_row
    /\ soft_lines' = w.soft_lines
    /\ wrap_width' = w.wrap_width
    /\ font' = w.font

\* the LineItems a full-buffer update of a new TextWrapper produces
FullLines(t, width, f) == update_all(new_wrapper(width, f), t).lines

WrapTexts == { t \in TextsOver(WrapChars, MaxTextLen) : Len(t) <= MaxTextLen }

NewTexts == TextsOver(WrapChars, MaxNewChars)

RopeIdle ==
    /\ rope = <<>>
    /\ call = NoCall

\* TextWrapper::set_default_text
set_default_text(w, t) == [w EXCEPT !.text = t]

\* The wrapper after construction (TextWrapper::new), after construction and
\* set_default_text, or after construction and the full-buffer update that
\* lays out the editor's initial text.
WrapInit ==
    /\ wrap_width \in WrapWidths
    /\ font \in Fonts
    /\ \/ \E t \in WrapTexts :
             LET w == set_default_text(new_wrapper(wrap_width, font), t)
             IN  /\ text = w.text
                 /\ lines = w.lines
                 /\ longest_row = w.longest_row
                 /\ soft_lines = w.soft_lines
                 /\ last_edit = [kind |-> "new"]
       \/ \E t \in WrapTexts :
             LET w == update_all(new_wrapper(wrap_width, font), t)
             IN  /\ text = w.text
                 /\ lines = w.lines
                 /\ longest_row = w.longest_row
                 /\ soft_lines = w.soft_lines
                 /\ last_edit = [kind |-> "update_all"]
    /\ edits = 0
    /\ RopeIdle
    /\ LspIdle
    /\ HoverIdle
    /\ MarkerIdle

\* An edit: the buffer replaces the byte range by new_text, then the wrapper is
\* given the changed text, the range before the change and the inserted text.
Update ==
    \E s \in CharBoundaries(text), e \in CharBoundaries(text), new_text \in NewTexts :
        /\ edits < MaxEdits
        /\ s <= e
        /\ Len(text) - (e - s) + Len(new_text) <= MaxTextLen
        /\ edits' = edits + 1
        /\ LET range == [start |-> s, end |-> e]
               changed_text == replace(text, range, new_text)
           IN  /\ \E w \in {update(Wrapper, changed_text, range, new_text)} : SetWrapper(w)
               /\ last_edit' = [kind |-> "update",
                                removes_all |-> (s = 0 /\ e = Len(text) /\ new_text = <<>>),
                                old_rows |-> Len(lines),
                                synced |-> lines = FullLines(text, wrap_width, font)]
        /\ UNCHANGED <<ropeVars, lspVars, hoverVars, markerVars>>

\* TextWrapper::set_wrap_width
SetWrapWidth ==
    \E width \in WrapWidths :
        /\ IF width = wrap_width
           THEN UNCHANGED <<text, lines, longest_row, soft_lines, wrap_width, font, last_edit>>
           ELSE /\ \E w \in {update_all([Wrapper EXCEPT !.wrap_width = width], text)} :
                      SetWrapper(w)
                /\ last_edit' = [kind |-> "set_wrap_width"]
        /\ UNCHANGED <<edits, ropeVars, lspVars, hoverVars, markerVars>>

\* TextWrapper::set_font
SetFont ==
    \E f \in Fonts :
        /\ IF f = font
           THEN UNCHANGED <<text, lines, longest_row, soft_lines, wrap_width, font, last_edit>>
           ELSE /\ \E w \in {update_all([Wrapper EXCEPT !.font = f], text)} :
                      SetWrapper(w)
                /\ last_edit' = [kind |-> "set_font"]
        /\ UNCHANGED <<edits, ropeVars, lspVars, hoverVars, markerVars>>

WrapNext ==
    \/ Update
    \/ SetWrapWidth
    \/ SetFont

SpecWrap == WrapInit /\ [][WrapNext]_vars

(***************************************************************************)
(* Properties of the TextWrapper.                                          *)
(***************************************************************************)
\* C1: after every incremental update the LineItems (line text and
\* wrapped_lines) equal those a full-buffer update of the resulting buffer
\* produces
C1_IncrementalEqualsFull ==
    last_edit.kind = "update" => lines = FullLines(text, wrap_width, font)

\* the ranges are contiguous from 0 to len, each start..end with start <= end
Partitions(ranges, len) ==
    /\ Len(ranges) >= 1
    /\ ranges[1].start = 0
    /\ ranges[Len(ranges)].end = len
    /\ \A k \in 1..Len(ranges) : ranges[k].start <= ranges[k].end
    /\ \A k \in 1..(Len(ranges) - 1) : ranges[k].end = ranges[k + 1].start

\* C2: after one or more updates, every LineItem's wrapped_lines is a
\* non-empty list of contiguous, non-overlapping ranges from 0 to the line's
\* byte length, and lines is not empty
C2_WrapInvariant ==
    last_edit.kind # "new" =>
        /\ Len(lines) >= 1
        /\ \A i \in 1..Len(lines) : Partitions(lines[i].wrapped_lines, Len(lines[i].line))

\* after an incremental update some line is wrapped into two rows and another
\* line is empty
C2_Witness ==
    /\ last_edit.kind = "update"
    /\ wrap_width = 1
    /\ \E i \in 1..Len(lines) : Len(lines[i].wrapped_lines) = 2
    /\ \E i \in 1..Len(lines) : lines[i].line = <<>>

\* the byte lengths of the wrapper's logical lines
LineLens == { Len(lines[i].line) : i \in 1..Len(lines) }

\* C7: after any sequence of edits longest_row.len is the maximum byte length
\* over all current logical lines
C7_LongestRowIsMax ==
    last_edit.kind # "new" =>
        /\ longest_row.len \in LineLens
        /\ \A n \in LineLens : n <= longest_row.len

\* C8: an edit that removes the whole content of a synced wrapper leaves
\* exactly one LineItem, whose wrapped_lines is [0..0]
C8_EmptiedBufferKeepsOneLine ==
    (last_edit.kind = "update" /\ last_edit.removes_all /\ last_edit.synced) =>
        lines = <<[line |-> <<>>, wrapped_lines |-> <<[start |-> 0, end |-> 0]>>]>>

\* the whole content of a synced wrapper of three rows was removed
C8_Witness ==
    /\ last_edit.kind = "update"
    /\ last_edit.removes_all
    /\ last_edit.synced
    /\ last_edit.old_rows = 3
    /\ text = <<>>

C27_OneLineItemPerLine ==
    last_edit.kind # "new" => [i \in 1..Len(lines) |-> lines[i].line] = iter_lines(text)

\* C28: after any sequence of edits longest_row.row is an index into lines
\* and the line at that index has byte length longest_row.len
C28_LongestRowPointsAtItsLine ==
    last_edit.kind # "new" =>
        /\ longest_row.row < Len(lines)
        /\ Len(lines[longest_row.row + 1].line) = longest_row.len

(***************************************************************************)
(* InputState: the completion request dispatcher.                          *)
(*                                                                         *)
(* context_menu is the Option<ContextMenu>; its CompletionMenu holds open, *)
(* trigger_start_offset (-1: None), the query (the byte range it is the    *)
(* text of), and the offset and items it shows.  The items of a response   *)
(* are named by the request they answer.  context_menu_task is the field   *)
(* _context_menu_task: the set of spawned tasks that are still alive       *)
(* (a gpui Task is cancelled when it is dropped).                          *)
(***************************************************************************)
CursorOffsets == 0..MaxCursor

\* CompletionMenu::new
new_menu == [some |-> TRUE, open |-> FALSE, trigger_start_offset |-> -1,
             query |-> <<0, 0>>, offset |-> 0, items |-> 0]

\* CompletionMenu::update_query
update_query(menu, start_offset, query) ==
    [menu EXCEPT !.trigger_start_offset = start_offset, !.query = query]

\* CompletionMenu::show
show(menu, offset, items) ==
    [menu EXCEPT !.open = TRUE, !.offset = offset, !.items = items]

\* CompletionMenu::hide
hide(menu) == [menu EXCEPT !.open = FALSE, !.trigger_start_offset = -1]

\* a spawn that detaches the task instead of storing it: the task spawned
\* before stays alive
spawn_detached(tasks, task) == tasks \cup {task}

\* self._context_menu_task = cx.spawn_in(..): the task stored before is
\* dropped, which cancels it
spawn_context_menu_task(tasks, task) == {task}

LspInit ==
    /\ cursor \in CursorOffsets
    /\ focused = TRUE
    /\ completion_inserting \in BOOLEAN
    /\ completion_provider \in BOOLEAN
    /\ context_menu = NoMenu
    /\ context_menu_task = {}
    /\ next_request = 1
    /\ shown_log = NoneResolved
    /\ trigger_log = "none"
    /\ lsp_call = NoLspCall
    /\ RopeIdle
    /\ WrapIdle
    /\ HoverIdle
    /\ MarkerIdle

\* an early return that forgets completion_inserting
returns_early_while_inserting(inserting, provider, is_trigger) ==
    ~provider \/ ~is_trigger

\* the early returns of handle_completion_trigger: a completion is being
\* inserted, no provider is registered, or the provider says the text is no
\* trigger
returns_early(inserting, provider, is_trigger) ==
    inserting \/ ~provider \/ ~is_trigger

\* InputState::handle_completion_trigger(range, new_text); start is range.end
\* and is_trigger is the provider's answer to is_completion_trigger.
\* trigger_log records where the call ended: "returned" (an early return
\* before the menu is looked at), "left_range" (the cursor is before the
\* trigger start offset) or "issued" (a request was sent to the provider).
HandleCompletionTrigger ==
    \E start \in CursorOffsets, is_trigger \in BOOLEAN :
        /\ next_request <= MaxRequests
        /\ lsp_call' = [lsp_call EXCEPT !.tick = ~@, !.fn = "trigger",
                                        !.is_trigger = is_trigger]
        /\ IF returns_early(completion_inserting, completion_provider, is_trigger)
           THEN /\ trigger_log' = "returned"
                /\ UNCHANGED <<context_menu, context_menu_task, next_request>>
           ELSE LET new_offset == cursor
                    menu == IF context_menu.some THEN context_menu ELSE new_menu
                    start_offset == IF menu.trigger_start_offset # -1
                                    THEN menu.trigger_start_offset
                                    ELSE start
                IN  IF new_offset < start_offset
                    THEN /\ context_menu' = menu
                         /\ trigger_log' = "left_range"
                         /\ UNCHANGED <<context_menu_task, next_request>>
                    ELSE /\ context_menu' =
                                update_query(menu, start_offset, <<start_offset, new_offset>>)
                         /\ context_menu_task' =
                                spawn_context_menu_task(context_menu_task,
                                    [req |-> next_request, offset |-> new_offset])
                         /\ next_request' = next_request + 1
                         /\ trigger_log' = "issued"
        /\ UNCHANGED <<cursor, focused, completion_inserting, completion_provider,
                       shown_log, ropeVars, wrapVars, hoverVars, markerVars>>

\* a task body that hands a failure of the provider on with `?`: the menu is
\* left as it is and the task ends with the error
completion_task_propagating(menu, task, response, is_focused) ==
    IF response = "error"
    THEN [menu |-> menu, outcome |-> "failed", result |-> "Err"]
    ELSE IF response = "empty"
    THEN [menu |-> hide(menu), outcome |-> "hidden", result |-> "Ok"]
    ELSE IF ~is_focused
    THEN [menu |-> menu, outcome |-> "unfocused", result |-> "Ok"]
    ELSE [menu |-> show(menu, task.offset, task.req), outcome |-> "shown", result |-> "Ok"]

\* the body of the task spawned by handle_completion_trigger, run on the menu
\* it holds: the menu after it, what it did and the Result it ends with
completion_task(menu, task, response, is_focused) ==
    LET completions == IF response = "items" THEN task.req ELSE 0
    IN  IF completions = 0
        THEN [menu |-> hide(menu), outcome |-> "hidden", result |-> "Ok"]
        ELSE IF ~is_focused
        THEN [menu |-> menu, outcome |-> "unfocused", result |-> "Ok"]
        ELSE [menu |-> show(menu, task.offset, task.req), outcome |-> "shown", result |-> "Ok"]

\* The spawned task: the provider's response arrives (a failure, an empty list
\* or items) and the task runs to its end.
CompletionTaskResolves ==
    \E task \in context_menu_task, response \in {"error", "empty", "items"} :
        \E r \in {completion_task(context_menu, task, response, focused)} :
            /\ context_menu_task' = context_menu_task \ {task}
            /\ context_menu' = r.menu
            /\ shown_log' = [req |-> task.req, latest |-> next_request - 1,
                             outcome |-> r.outcome, offset |-> task.offset,
                             result |-> r.result]
            /\ UNCHANGED <<cursor, focused, completion_inserting, completion_provider,
                           next_request, trigger_log, lsp_call, ropeVars, wrapVars,
                           hoverVars, markerVars>>

\* a hide that leaves the task in flight alive
hide_context_menu_keeping_task ==
    [context_menu |-> NoMenu, context_menu_task |-> context_menu_task]

\* InputState::hide_context_menu: the menu and the task field after it
hide_context_menu ==
    [context_menu |-> NoMenu, context_menu_task |-> {}]

\* InputState::hide_context_menu
HideContextMenu ==
    /\ context_menu' = hide_context_menu.context_menu
    /\ context_menu_task' = hide_context_menu.context_menu_task
    /\ lsp_call' = [lsp_call EXCEPT !.tick = ~@, !.fn = "hide",
                                    !.hidden_before = next_request,
                                    !.dropped = { t.req : t \in context_menu_task }]
    /\ UNCHANGED <<cursor, focused, completion_inserting, completion_provider,
                   next_request, shown_log, trigger_log, ropeVars, wrapVars, hoverVars,
                   markerVars>>

\* the cursor moves (an edit or a movement)
MoveCursor ==
    \E c \in CursorOffsets :
        /\ cursor' = c
        /\ UNCHANGED <<focused, completion_inserting, completion_provider, context_menu,
                       context_menu_task, next_request, shown_log, trigger_log, lsp_call,
                       ropeVars, wrapVars, hoverVars, markerVars>>

\* the window gives or takes the editor's focus; on the loss of focus the
\* context menu is hidden (hide_context_menu)
FocusChanges ==
    /\ focused' = ~focused
    /\ IF focused
       THEN /\ context_menu' = NoMenu
            /\ context_menu_task' = {}
       ELSE UNCHANGED <<context_menu, context_menu_task>>
    /\ UNCHANGED <<cursor, completion_inserting, completion_provider,
                   next_request, shown_log, trigger_log, lsp_call, ropeVars,
                   wrapVars, hoverVars, markerVars>>

LspNext ==
    \/ HandleCompletionTrigger
    \/ CompletionTaskResolves
    \/ HideContextMenu
    \/ MoveCursor
    \/ FocusChanges

SpecLsp == LspInit /\ [][LspNext]_vars

(***************************************************************************)
(* Properties of the completion dispatcher.                                *)
(***************************************************************************)
\* C3: a completion request superseded by a later one never has its result
\* applied: at most one request is in flight, the task that resolves is the
\* one of the latest request, and the list shown after it resolves is the one
\* of that request at its cursor offset
C3_LastQueryWins ==
    /\ Cardinality(context_menu_task) <= 1
    /\ \A task \in context_menu_task : task.req = next_request - 1
    /\ shown_log.outcome # "none" => shown_log.req = shown_log.latest
    /\ (shown_log.outcome = "shown" /\ context_menu.some /\ context_menu.open
            /\ context_menu_task = {} /\ shown_log.req = next_request - 1)
        => (context_menu.items = shown_log.req /\ context_menu.offset = shown_log.offset)

\* a second request was issued while the first was unresolved, and the list
\* shown is the second's, at the second's offset
C3_Witness ==
    /\ next_request = 3
    /\ context_menu_task = {}
    /\ shown_log = [req |-> 2, latest |-> 2, outcome |-> "shown", offset |-> 2,
                    result |-> "Ok"]
    /\ context_menu.open
    /\ context_menu.items = 2
    /\ context_menu.offset = 2
    /\ context_menu.trigger_start_offset = 1

\* C18: when the provider's task fails or resolves to an empty list, the
\* request degrades to no results: the menu is hidden, no item of the request
\* is shown, the task ends without an error, and the step leaves the buffer
\* and the cursor as they are
C18_FailedCompletionDegrades ==
    /\ [](shown_log.outcome \in {"hidden", "failed"} =>
            /\ ~context_menu.open
            /\ context_menu.items # shown_log.req
            /\ shown_log.result = "Ok")
    /\ [][shown_log' # shown_log => UNCHANGED <<cursor, focused, rope, text>>]_vars

\* a list was shown, and then a later request of the same menu resolved
\* without items: the menu is hidden
C18_Witness ==
    /\ shown_log.outcome = "hidden"
    /\ shown_log.req = 2
    /\ context_menu.some
    /\ context_menu.items = 1
    /\ ~context_menu.open

\* C20: from Pending or Shown, loss of focus or the cursor before the trigger
\* start offset forces the popover to Hidden: afterwards no completion menu is
\* open and no request is pending whose result could be shown
C20_LeavingHidesCompletion ==
    /\ trigger_log = "left_range" => (~context_menu.open /\ context_menu_task = {})
    /\ ~focused => ~context_menu.open

\* C29: when completion_inserting is set, no completion provider is
\* registered or is_completion_trigger returns false,
\* handle_completion_trigger dispatches no request and changes nothing: the
\* context menu with its query and trigger start offset and the task in
\* flight are as they were
C29_EarlyReturnChangesNothing ==
    [][(lsp_call' # lsp_call /\ lsp_call'.fn = "trigger"
            /\ (completion_inserting \/ ~completion_provider \/ ~lsp_call'.is_trigger))
        => UNCHANGED <<context_menu, context_menu_task, next_request, shown_log,
                       cursor, focused, completion_inserting, completion_provider>>]_vars

\* the provider says the text is no trigger while a request is in flight and
\* the menu holds a trigger start offset
C29_Witness ==
    /\ lsp_call.fn = "trigger"
    /\ ~lsp_call.is_trigger
    /\ trigger_log = "returned"
    /\ completion_provider
    /\ ~completion_inserting
    /\ context_menu.some
    /\ context_menu.trigger_start_offset = 1
    /\ context_menu_task # {}

\* C30: after hide_context_menu no context menu is open and the task in
\* flight is dropped: until the next trigger nothing is open or in flight,
\* and a request issued before the hide never resolves or is shown after it
C30_HideDropsCompletion ==
    /\ [](lsp_call.fn = "hide" => (~context_menu.some /\ ~context_menu.open
                                     /\ context_menu_task = {}))
    /\ [](context_menu.open => context_menu.items >= lsp_call.hidden_before)
    /\ [][shown_log' # shown_log => shown_log'.req >= lsp_call.hidden_before]_vars

\* request 1 was in flight when hide_context_menu was called, and the list
\* of request 2, issued after it, is shown
C30_Witness ==
    /\ lsp_call.dropped = {1}
    /\ lsp_call.hidden_before = 2
    /\ shown_log.req = 2
    /\ shown_log.outcome = "shown"
    /\ context_menu.open
    /\ context_menu.items = 2

(***************************************************************************)
(* InputState::apply_lsp_edits: the TextEdits of a provider, each a range  *)
(* of two lsp_types::Position and the text that replaces it.               *)
(***************************************************************************)
EditTexts == TextsOver({"a", "em", "LF"}, MaxEditChars)

\* the Positions a provider sends: lines and characters in and past the buffer
EditPositions == [line : 0..(MaxEditChars + 1), character : 0..(MaxEditChars + 1)]

\* the lists of up to n TextEdits a provider sends
TextEditLists(n) ==
    UNION { [1..k -> [start : EditPositions, end : EditPositions,
                      new_text : {<<>>, <<"a">>}]] : k \in 0..n }

\* one turn of the loop of apply_lsp_edits: the byte range the edit resolves to
resolve_edit(t, edit) ==
    [start |-> position_to_offset(t, edit.start), end |-> position_to_offset(t, edit.end)]

\* replace_text_in_range_silent on the resolved range
apply_edit(t, edit) == replace(t, resolve_edit(t, edit), edit.new_text)

\* an application that resolves every edit against the text before the call
RECURSIVE apply_lsp_edits_on_snapshot(_, _)
apply_lsp_edits_on_snapshot(t, text_edits) ==
    IF Len(text_edits) = 0 THEN [text |-> t, ranges |-> <<>>]
    ELSE LET n == Len(text_edits)
             init == apply_lsp_edits_on_snapshot(t, SubSeq(text_edits, 1, n - 1))
             range == resolve_edit(t, text_edits[n])
             start == Min(range.start, Len(init.text))
             end == Max(start, Min(range.end, Len(init.text)))
         IN  [text |-> replace(init.text, [start |-> start, end |-> end],
                               text_edits[n].new_text),
              ranges |-> init.ranges \o <<range>>]

\* InputState::apply_lsp_edits: the text after the edits, applied in order,
\* and the byte range each edit resolved to
RECURSIVE apply_lsp_edits(_, _)
apply_lsp_edits(t, text_edits) ==
    IF Len(text_edits) = 0 THEN [text |-> t, ranges |-> <<>>]
    ELSE LET rest == apply_lsp_edits(apply_edit(t, Head(text_edits)), Tail(text_edits))
         IN  [text |-> rest.text,
              ranges |-> <<resolve_edit(t, Head(text_edits))>> \o rest.ranges]

\* every range of the list is well formed when its turn comes: its start does
\* not resolve after its end
RECURSIVE WellFormedEdits(_, _)
WellFormedEdits(t, text_edits) ==
    IF Len(text_edits) = 0 THEN TRUE
    ELSE /\ resolve_edit(t, Head(text_edits)).start <= resolve_edit(t, Head(text_edits)).end
         /\ WellFormedEdits(apply_edit(t, Head(text_edits)), Tail(text_edits))

LspEditInit ==
    /\ rope \in EditTexts
    /\ call = NoCall
    /\ WrapIdle
    /\ LspIdle
    /\ HoverIdle
    /\ MarkerIdle

\* InputState::apply_lsp_edits(text_edits); the call records the text before
\* it and the byte range each edit resolved to
ApplyLspEdits ==
    /\ NoCallYet
    /\ \E text_edits \in TextEditLists(MaxTextEdits) :
          /\ WellFormedEdits(rope, text_edits)
          /\ \E r \in {apply_lsp_edits(rope, text_edits)} :
                /\ rope' = r.text
                /\ call' = [fn |-> "apply_lsp_edits", arg |-> text_edits, bias |-> "Left",
                            ret |-> [before |-> rope, ranges |-> r.ranges], origin |-> -1]
    /\ UNCHANGED <<wrapVars, lspVars, hoverVars, markerVars>>

LspEditNext == ApplyLspEdits

SpecLspEdit == LspEditInit /\ [][LspEditNext]_vars

\* the Positions of the lists of TextEdits: the first two lines
ListPositions == [line : 0..1, character : 0..MaxEditChars]

\* the lists of up to n TextEdits on the first two lines
TextEditSeqs(n) ==
    UNION { [1..k -> [start : ListPositions, end : ListPositions,
                      new_text : {<<>>, <<"a">>}]] : k \in 0..n }

\* InputState::apply_lsp_edits(text_edits) with a list of edits; the call
\* records the text before it and the byte range each edit resolved to
ApplyLspEditList ==
    /\ NoCallYet
    /\ \E text_edits \in TextEditSeqs(MaxListEdits) :
          /\ WellFormedEdits(rope, text_edits)
          /\ \E r \in {apply_lsp_edits(rope, text_edits)} :
                /\ rope' = r.text
                /\ call' = [fn |-> "apply_lsp_edits", arg |-> text_edits, bias |-> "Left",
                            ret |-> [before |-> rope, ranges |-> r.ranges], origin |-> -1]
    /\ UNCHANGED <<wrapVars, lspVars, hoverVars, markerVars>>

LspEditListNext == ApplyLspEditList

SpecLspEditList == LspEditInit /\ [][LspEditListNext]_vars

(***************************************************************************)
(* Properties of the positions exchanged with providers.                   *)
(***************************************************************************)
\* the byte offsets of the row of a Position that lie at its UTF-16 column
Utf16ColumnOffsets(t, pos) ==
    { b \in CharBoundaries(t) :
        /\ b >= line_start_offset(t, pos.line)
        /\ b <= line_end_offset(t, pos.line)
        /\ len_utf16_of(Slice(t, line_start_offset(t, pos.line), b)) = pos.character }

\* the Position is on a row of the buffer, at a UTF-16 column of it
OnUtf16Column(t, pos) == pos.line < lines_len(t) /\ Utf16ColumnOffsets(t, pos) # {}

\* C12: the Positions exchanged with providers measure character in UTF-16
\* code units: the byte offset resolved for the Position of a TextEdit is the
\* one at that UTF-16 column of the row
C12_ProviderPositionsUtf16 ==
    (call.fn = "apply_lsp_edits" /\ Len(call.arg) >= 1) =>
        LET t == call.ret.before
            edit == call.arg[1]
            range == call.ret.ranges[1]
        IN  /\ OnUtf16Column(t, edit.start) => range.start \in Utf16ColumnOffsets(t, edit.start)
            /\ OnUtf16Column(t, edit.end) => range.end \in Utf16ColumnOffsets(t, edit.end)

(***************************************************************************)
(* InputState: hover definition.  The text of the editor is `rope`.        *)
(* hover_definition is the Option<HoverDefinition>; its locations are      *)
(* named by the request that returned them.  hover_task is the field       *)
(* lsp._hover_task: the spawned tasks that are still alive.                *)
(***************************************************************************)
HoverTexts == TextsOver({"a", "LF"}, MaxHoverChars)

\* a comparison that takes the end of the symbol range as inside it
is_same_inclusive(hover, offset) ==
    hover.symbol_range.start <= offset /\ offset <= hover.symbol_range.end

\* HoverDefinition::is_same
is_same(hover, offset) ==
    hover.symbol_range.start <= offset /\ offset < hover.symbol_range.end

\* the responses of a definition provider: a failure, or a list of
\* LocationLinks (empty; or its first with or without origin_selection_range)
DefinitionResponses ==
    {[kind |-> "error", origin |-> FALSE, start |-> [line |-> 0, character |-> 0],
      end |-> [line |-> 0, character |-> 0]],
     [kind |-> "empty", origin |-> FALSE, start |-> [line |-> 0, character |-> 0],
      end |-> [line |-> 0, character |-> 0]],
     [kind |-> "locations", origin |-> FALSE, start |-> [line |-> 0, character |-> 0],
      end |-> [line |-> 0, character |-> 0]]}
    \cup { [kind |-> "locations", origin |-> TRUE, start |-> [line |-> l, character |-> 0],
            end |-> [line |-> l, character |-> 1]] : l \in 0..1 }

\* a spawn whose task is detached: the task stored before stays alive
spawn_hover_detached(tasks, task) == tasks \cup {task}

\* self.lsp._hover_task = cx.spawn_in(..): the task stored before is dropped,
\* which cancels it
spawn_hover_task(tasks, task) == {task}

\* InputState::handle_hover_definition(offset): the hover task and the
\* request counter after it
handle_hover_definition(offset) ==
    IF ~definition_provider THEN [hover_task |-> hover_task, next |-> next_hover_request]
    ELSE IF hover_definition.some /\ is_same(hover_definition, offset)
    THEN [hover_task |-> hover_task, next |-> next_hover_request]
    ELSE LET word == word_range(rope, offset)
             symbol_range == IF word.some THEN [start |-> word.start, end |-> word.end]
                             ELSE [start |-> offset, end |-> offset]
         IN  [hover_task |-> spawn_hover_task(hover_task,
                                [req |-> next_hover_request, symbol_range |-> symbol_range,
                                 dropped |-> { t.req : t \in hover_task }]),
              next |-> next_hover_request + 1]

\* the body of the task spawned by handle_hover_definition: the hover
\* definition after it, what it did and the Result it ends with
definition_task(hover, t, task, response) ==
    IF response.kind = "error"
    THEN [hover |-> hover, outcome |-> "failed", result |-> "Err"]
    ELSE IF response.kind = "empty"
    THEN [hover |-> NoHoverDefinition, outcome |-> "empty", result |-> "Ok"]
    ELSE LET symbol_range ==
                 IF response.origin
                 THEN [start |-> position_to_offset(t, response.start),
                       end |-> position_to_offset(t, response.end)]
                 ELSE task.symbol_range
         IN  [hover |-> [some |-> TRUE, symbol_range |-> symbol_range, locations |-> task.req],
              outcome |-> "locations", result |-> "Ok"]

HoverInit ==
    /\ rope \in HoverTexts
    /\ call = NoCall
    /\ definition_provider \in BOOLEAN
    /\ hover_definition = NoHoverDefinition
    /\ hover_task = {}
    /\ next_hover_request = 1
    /\ hover_log = NoHoverResolved
    /\ hover_call = NoHoverCall
    /\ WrapIdle
    /\ LspIdle
    /\ MarkerIdle

\* InputState::handle_mouse_move(offset, event): with the secondary modifier
\* the definition is asked for; without it the hover definition is cleared
\* and the hover popover is handled, which may replace the hover task
HandleMouseMove ==
    \E offset \in 0..Len(rope), secondary \in BOOLEAN :
        /\ IF secondary
           THEN \E r \in {handle_hover_definition(offset)} :
                   /\ r.next <= MaxHoverRequests + 1
                   /\ hover_task' = r.hover_task
                   /\ next_hover_request' = r.next
                   /\ hover_call' = [made |-> TRUE, offset |-> offset,
                                     before |-> hover_definition,
                                     task_before |-> hover_task,
                                     task_after |-> r.hover_task,
                                     issued |-> r.next # next_hover_request]
                   /\ UNCHANGED hover_definition
           ELSE /\ hover_definition' = NoHoverDefinition
                /\ hover_task' \in {hover_task, {}}
                /\ UNCHANGED <<next_hover_request, hover_call>>
        /\ UNCHANGED <<definition_provider, hover_log, ropeVars, wrapVars, lspVars, markerVars>>

\* The spawned task: the provider's response arrives and the task runs to its
\* end.
DefinitionTaskResolves ==
    \E task \in hover_task, response \in DefinitionResponses :
        \E r \in {definition_task(hover_definition, rope, task, response)} :
            /\ hover_task' = hover_task \ {task}
            /\ hover_definition' = r.hover
            /\ hover_log' = [req |-> task.req, outcome |-> r.outcome, result |-> r.result,
                             dropped |-> task.dropped]
            /\ UNCHANGED <<definition_provider, next_hover_request, hover_call, ropeVars, wrapVars,
                           lspVars, markerVars>>

HoverNext ==
    \/ HandleMouseMove
    \/ DefinitionTaskResolves

SpecHover == HoverInit /\ [][HoverNext]_vars

\* C19: when the definition provider's task fails, the request degrades to
\* no results as an empty location list does: afterwards the editor holds no
\* hover definition
C19_FailedDefinitionDegrades ==
    hover_log.outcome \in {"failed", "empty"} => ~hover_definition.some

\* C21: a definitions request issued for a new offset abandons the one in
\* flight: a request that writes hover_definition (to None or to Some) is
\* the newest request issued, in any resolution order
C21_LastDefinitionQueryWins ==
    [][(hover_log' # hover_log /\ hover_log'.outcome \in {"empty", "locations"}) =>
            hover_log'.req = next_hover_request - 1]_vars

\* request 2 was issued while request 1 was in flight, and its locations
\* were written
C21_Witness ==
    /\ hover_log.req = 2
    /\ hover_log.dropped = {1}
    /\ hover_log.outcome = "locations"
    /\ hover_definition.some
    /\ hover_definition.locations = 2

\* C22: once no request is in flight, hover_definition is absent or its
\* symbol range contains the offset of the most recent
\* handle_hover_definition call
C22_HoverDefinitionIsForCurrentOffset ==
    (hover_call.made /\ hover_task = {} /\ hover_definition.some) =>
        is_same(hover_definition, hover_call.offset)

\* C25: handle_hover_definition issues no request and leaves the task in
\* flight untouched when the offset lies inside the symbol range
\* [start, end) of the current hover definition; for an offset outside it,
\* the end included, it issues a new request; it never touches
\* hover_definition itself
C25_SameSymbolIssuesNoRequest ==
    /\ [](hover_call.made /\ hover_call.before.some =>
            LET range == hover_call.before.symbol_range
                inside == range.start <= hover_call.offset /\ hover_call.offset < range.end
            IN  /\ inside => (~hover_call.issued /\ hover_call.task_after = hover_call.task_before)
                /\ ~inside => (hover_call.issued /\ hover_call.task_after # hover_call.task_before))
    /\ [][hover_call' # hover_call => UNCHANGED hover_definition]_vars

\* the hover definition covers 0..1 and the mouse is at its end, offset 1: a
\* request was issued
C25_Witness ==
    /\ hover_call.made
    /\ hover_call.before.some
    /\ hover_call.before.symbol_range = [start |-> 0, end |-> 1]
    /\ hover_call.offset = 1
    /\ hover_call.issued

(***************************************************************************)
(* Marker: a diagnostic of the editor, given by 1-based LineColumn         *)
(* coordinates and resolved to a byte range by prepare.  The text of the   *)
(* editor is `rope`.                                                       *)
(***************************************************************************)
MarkerTexts == TextsOver({"a", "LF"}, MaxMarkerChars)

\* LineColumn::new(line, column), From<(usize, usize)>
line_column(line, column) == [line |-> Max(line, 1), column |-> Max(column, 1)]

LineColumns == { line_column(l, c) : l \in 0..MaxLineColumn, c \in 0..MaxLineColumn }

\* RopeExt::line_column_to_offset: the offset of the 1-based line and column,
\* the column counted in characters
line_column_to_offset(t, line_col) ==
    position_to_offset(t, [line |-> saturating_sub(line_col.line, 1),
                           character |-> saturating_sub(line_col.column, 1)])

\* Marker::new
new_marker(start, end) == [made |-> TRUE, start |-> start, end |-> end, range |-> NoRange]

\* a prepare that keeps a range resolved before
prepare_once(m, t) ==
    IF m.range.some THEN m
    ELSE [m EXCEPT !.range = SomeRange(line_column_to_offset(t, m.start),
                                       line_column_to_offset(t, m.end))]

\* Marker::prepare
prepare(m, t) ==
    [m EXCEPT !.range = SomeRange(line_column_to_offset(t, m.start),
                                  line_column_to_offset(t, m.end))]

MarkerInit ==
    /\ rope \in MarkerTexts
    /\ call = NoCall
    /\ marker = NoMarker
    /\ marker_log = [op |-> "none"]
    /\ WrapIdle
    /\ LspIdle
    /\ HoverIdle

MarkerNew ==
    \E start \in LineColumns, end \in LineColumns :
        /\ marker' = new_marker(start, end)
        /\ marker_log' = [op |-> "new", start |-> start, end |-> end]
        /\ UNCHANGED <<ropeVars, wrapVars, lspVars, hoverVars>>

\* marker.prepare(state)
MarkerPrepare ==
    /\ marker.made
    /\ marker' = prepare(marker, rope)
    /\ marker_log' = [op |-> "prepare", before |-> marker.range]
    /\ UNCHANGED <<ropeVars, wrapVars, lspVars, hoverVars>>

\* an edit of the buffer: a byte range on char boundaries is replaced
EditBuffer ==
    \E s \in CharBoundaries(rope), e \in CharBoundaries(rope),
       new_text \in {<<>>, <<"a">>, <<"LF">>} :
        /\ s <= e
        /\ Len(rope) - (e - s) + Len(new_text) <= MaxMarkerChars
        /\ rope' = replace(rope, [start |-> s, end |-> e], new_text)
        /\ rope' # rope
        /\ marker_log' = [op |-> "edit", before |-> marker.range]
        /\ UNCHANGED <<call, marker, wrapVars, lspVars, hoverVars>>

MarkerNext ==
    \/ MarkerNew
    \/ MarkerPrepare
    \/ EditBuffer

SpecMarker == MarkerInit /\ [][MarkerNext]_vars

\* C17: Marker::new stores the given coordinates and leaves the resolved
\* range unset; each prepare overwrites the resolved range with the range of
\* start..end in the current text; a buffer edit by itself never changes the
\* resolved range
C17_MarkerPrepare ==
    /\ [](marker_log.op = "new" =>
            /\ marker.start = marker_log.start
            /\ marker.end = marker_log.end
            /\ ~marker.range.some)
    /\ [](marker_log.op = "prepare" =>
            /\ marker.range.some
            /\ marker.range.start = line_column_to_offset(rope, marker.start)
            /\ marker.range.end = line_column_to_offset(rope, marker.end))
    /\ [][rope' # rope => (marker' = marker /\ marker_log'.op = "edit")]_vars
    /\ [](marker_log.op = "edit" => marker.range = marker_log.before)

\* a marker on the second line, prepared before, was prepared again after an
\* edit put a line before it: the resolved range moved
C17_Witness ==
    /\ marker_log.op = "prepare"
    /\ marker_log.before = SomeRange(2, 3)
    /\ marker.start = [line |-> 2, column |-> 1]
    /\ marker.end = [line |-> 2, column |-> 2]
    /\ rope = <<"LF", "a">>
    /\ marker.range = SomeRange(1, 2)

(***************************************************************************)
(* Properties of apply_lsp_edits on a list of edits.                       *)
(***************************************************************************)
\* the text after the first k edits of the list, each resolved against the
\* text the edits before it left
RECURSIVE TextAfter(_, _, _)
TextAfter(t, text_edits, k) ==
    IF k = 0 THEN t
    ELSE LET prev == TextAfter(t, text_edits, k - 1)
             edit == text_edits[k]
             start == position_to_offset(prev, edit.start)
             end == position_to_offset(prev, edit.end)
         IN  Slice(prev, 0, start) \o edit.new_text \o Slice(prev, end, Len(prev))

\* C26: apply_lsp_edits applies the edits in list order and resolves the
\* start and the end of each against the buffer as the edits before it left
\* it, replacing exactly that byte range with the edit's new_text
C26_EditsResolveAgainstCurrentText ==
    call.fn = "apply_lsp_edits" =>
        /\ Len(call.ret.ranges) = Len(call.arg)
        /\ \A k \in 1..Len(call.arg) :
              LET prev == TextAfter(call.ret.before, call.arg, k - 1)
              IN  /\ call.ret.ranges[k].start = position_to_offset(prev, call.arg[k].start)
                  /\ call.ret.ranges[k].end = position_to_offset(prev, call.arg[k].end)
        /\ rope = TextAfter(call.ret.before, call.arg, Len(call.arg))

\* on the buffer of an emoji and a letter, the first edit inserted a letter
\* at the start and the second removed the character at column 1: against
\* the text before the call that column is byte 4, after the first edit it is
\* byte 1
C26_Witness ==
    /\ call.fn = "apply_lsp_edits"
    /\ Len(call.arg) = 2
    /\ call.ret.before = Encode(<<"em", "a">>)
    /\ call.ret.ranges[1] = [start |-> 0, end |-> 0]
    /\ call.arg[1].new_text = <<"a">>
    /\ call.arg[2].start = [line |-> 0, character |-> 1]
    /\ call.arg[2].end = [line |-> 0, character |-> 2]
    /\ call.ret.ranges[2] = [start |-> 1, end |-> 5]
    /\ rope = <<"a", "a">>

(***************************************************************************)
(* wef tool, commands/build.rs: execute_path picks the binary to bundle    *)
(* from the cargo metadata of the workspace.  A package is its name and    *)
(* its targets, a target its name and kind.  workspace_default_members is  *)
(* the list of default members when cargo reports it (available), and the  *)
(* call's metadata is held in `call`.                                      *)
(***************************************************************************)
\* the names of the packages, and one more that no workspace has
PackageNames == SubSeq(<<"pkg1", "pkg2", "pkg3", "pkg4", "pkg5">>, 1, MaxPackages + 1)

TargetNames == {"bin1", "bin2"}

\* the lists of up to m targets of a package
TargetLists(m) ==
    UNION { [1..k -> [name : TargetNames, kind : {"bin", "example"}]] : k \in 0..m }

\* the workspaces of 1..n packages of up to m targets
Workspaces(n, m) ==
    UNION { { [i \in 1..k |-> [name |-> PackageNames[i], targets |-> ts[i]]] :
                ts \in [1..k -> TargetLists(m)] } : k \in 1..n }

\* the elements of a sequence at the indices of I, in order
RECURSIVE Select(_, _, _)
Select(seq, I, from) ==
    IF from > Len(seq) THEN <<>>
    ELSE (IF from \in I THEN <<seq[from]>> ELSE <<>>) \o Select(seq, I, from + 1)

\* cargo_metadata::Metadata: the workspace packages and the default members
Metadatas(n, m) ==
    UNION { { [workspace_packages |-> ws, default_available |-> FALSE,
               workspace_default_packages |-> <<>>] }
            \cup { [workspace_packages |-> ws, default_available |-> TRUE,
                    workspace_default_packages |-> Select(ws, I, 1)] :
                        I \in (SUBSET (1..Len(ws))) \ {{}} } : ws \in Workspaces(n, m) }

\* Option<&str>: "" is None
NoName == ""

\* the elements of a sequence
Range(seq) == { seq[i] : i \in 1..Len(seq) }

\* std::env::consts::OS
OperatingSystems == {"macos", "windows", "linux", "other"}

Failure(message) == [ok |-> FALSE, err |-> message]

\* Iterator::find over a sequence, given which of its elements satisfy the
\* test: the index of the first that does; 0 when there is none
find(flags) ==
    IF \E i \in 1..Len(flags) : flags[i]
    THEN CHOOSE i \in 1..Len(flags) : flags[i] /\ \A j \in 1..(i - 1) : ~flags[j]
    ELSE 0

\* a choice of packages that takes the whole workspace when no package is named
packages_of_workspace(metadata, package) ==
    IF package # NoName
    THEN LET ws == metadata.workspace_packages
             i == find([k \in 1..Len(ws) |-> ws[k].name = package])
         IN  IF i = 0 THEN [ok |-> FALSE, packages |-> <<>>]
             ELSE [ok |-> TRUE, packages |-> <<metadata.workspace_packages[i]>>]
    ELSE [ok |-> TRUE, packages |-> metadata.workspace_packages]

\* execute_path, `let packages = ..`: the packages the target is looked for in
packages_of(metadata, package) ==
    IF package # NoName
    THEN LET ws == metadata.workspace_packages
             i == find([k \in 1..Len(ws) |-> ws[k].name = package])
         IN  IF i = 0 THEN [ok |-> FALSE, packages |-> <<>>]
             ELSE [ok |-> TRUE, packages |-> <<metadata.workspace_packages[i]>>]
    ELSE IF metadata.default_available
    THEN [ok |-> TRUE, packages |-> metadata.workspace_default_packages]
    ELSE [ok |-> TRUE, packages |-> metadata.workspace_packages]

\* packages.iter().find_map(..): the first package with a target of the kind
\* and name, and that target
find_target(packages, kind, name) ==
    LET target_of(p) ==
            find([j \in 1..Len(p.targets) |->
                    p.targets[j].kind = kind /\ p.targets[j].name = name])
        i == find([k \in 1..Len(packages) |-> target_of(packages[k]) # 0])
    IN  IF i = 0 THEN [found |-> FALSE, package |-> 0, target |-> 0]
        ELSE [found |-> TRUE, package |-> i, target |-> target_of(packages[i])]

\* the bin targets of the packages, in order, as <<package, target>> indices
RECURSIVE bin_targets(_, _)
bin_targets(packages, from) ==
    IF from > Len(packages) THEN <<>>
    ELSE LET ts == packages[from].targets
             I == { j \in 1..Len(ts) : ts[j].kind = "bin" }
         IN  Select([j \in 1..Len(ts) |-> <<from, j>>], I, 1) \o bin_targets(packages, from + 1)

\* execute_path: the BinaryInfo or the error it returns
execute_path(metadata, package, bin, example, os) ==
    LET chosen == packages_of(metadata, package)
        packages == chosen.packages
        Info(i, j, kind) ==
            IF os = "other" THEN Failure("Unsupported platform")
            ELSE [ok |-> TRUE, package_name |-> packages[i].name,
                  target_name |-> packages[i].targets[j].name, kind |-> kind,
                  exe |-> (os = "windows")]
    IN  IF ~chosen.ok THEN Failure("No package found in the workspace")
        ELSE IF bin # NoName
        THEN LET r == find_target(packages, "bin", bin)
             IN  IF r.found THEN Info(r.package, r.target, "Bin")
                 ELSE Failure("no bin target named")
        ELSE IF example # NoName
        THEN LET r == find_target(packages, "example", example)
             IN  IF r.found THEN Info(r.package, r.target, "Example")
                 ELSE Failure("no example target named")
        ELSE LET bins == bin_targets(packages, 1)
             IN  IF Len(bins) = 0 THEN Failure("a bin target must be available")
                 ELSE IF Len(bins) # 1 THEN Failure("could not determine which binary")
                 ELSE Info(bins[1][1], bins[1][2], "Bin")

\* the metadata of a workspace was read (MetadataCommand::exec)
BuildInit ==
    /\ \E metadata \in Metadatas(MaxPackages, MaxTargets) :
          call = [fn |-> "cargo_metadata", arg |-> 0, bias |-> "Left", ret |-> metadata,
                  origin |-> -1]
    /\ rope = <<>>
    /\ WrapIdle
    /\ LspIdle
    /\ HoverIdle
    /\ MarkerIdle

\* execute_path(&metadata, target_dir, package, bin, example)
ExecutePath ==
    /\ call.fn = "cargo_metadata"
    /\ \E package \in {NoName} \cup { PackageNames[i] : i \in 1..(MaxPackages + 1) },
          bin \in {NoName} \cup TargetNames, example \in {NoName} \cup TargetNames,
          os \in OperatingSystems :
          call' = [fn |-> "execute_path",
                   arg |-> [metadata |-> call.ret, package |-> package, bin |-> bin,
                            example |-> example, os |-> os],
                   bias |-> "Left",
                   ret |-> execute_path(call.ret, package, bin, example, os),
                   origin |-> -1]
    /\ UNCHANGED <<rope, wrapVars, lspVars, hoverVars, markerVars>>

BuildNext == ExecutePath

SpecBuild == BuildInit /\ [][BuildNext]_vars

\* the packages the claim calls chosen: the named package; else the default
\* members when the workspace has them; else all workspace packages
ChosenPackages(metadata, package) ==
    IF package # NoName
    THEN { p \in Range(metadata.workspace_packages) : p.name = package }
    ELSE IF metadata.default_available
    THEN Range(metadata.workspace_default_packages)
    ELSE Range(metadata.workspace_packages)

\* the targets of a kind in the packages, each as <<package, index>>
TargetsOfKind(ps, kind) ==
    UNION { { <<p, j>> : j \in { j \in 1..Len(p.targets) : p.targets[j].kind = kind } } :
            p \in ps }

\* C23: execute_path picks its target among the chosen packages only: with
\* bin given, a bin target of that name, failing with "no bin target named"
\* when the chosen packages have none; else with example given, an example
\* target of that name; else the single bin target, failing when the chosen
\* packages have no bin target or more than one.  A target picked is
\* returned unless the platform is unsupported.
C23_ExecutePathPicksAmongChosen ==
    call.fn = "execute_path" =>
        LET a == call.arg
            r == call.ret
            chosen == ChosenPackages(a.metadata, a.package)
            bins == TargetsOfKind(chosen, "bin")
            examples == TargetsOfKind(chosen, "example")
            Named(ts, name) == { t \in ts : t[1].targets[t[2]].name = name }
            Picks(ts, kind) ==
                IF a.os = "other" THEN r = Failure("Unsupported platform")
                ELSE /\ r.ok
                     /\ r.kind = kind
                     /\ \E t \in ts : /\ r.package_name = t[1].name
                                      /\ r.target_name = t[1].targets[t[2]].name
        IN  IF a.package # NoName /\ chosen = {}
            THEN ~r.ok
            ELSE IF a.bin # NoName
            THEN IF Named(bins, a.bin) = {} THEN r = Failure("no bin target named")
                 ELSE Picks(Named(bins, a.bin), "Bin")
            ELSE IF a.example # NoName
            THEN IF Named(examples, a.example) = {} THEN ~r.ok
                 ELSE Picks(Named(examples, a.example), "Example")
            ELSE IF Cardinality(bins) = 1 THEN Picks(bins, "Bin")
                 ELSE ~r.ok

\* the workspace has two packages and the second is its only default member;
\* bin1 is a bin target of the first package only, and execute_path is asked
\* for bin1 with no package named: no bin target named bin1
C23_Witness ==
    /\ call.fn = "execute_path"
    /\ call.arg.package = NoName
    /\ call.arg.bin = "bin1"
    /\ call.arg.metadata.default_available
    /\ Len(call.arg.metadata.workspace_packages) = 2
    /\ call.arg.metadata.workspace_default_packages =
            <<call.arg.metadata.workspace_packages[2]>>
    /\ call.arg.metadata.workspace_packages[1].targets = <<[name |-> "bin1", kind |-> "bin"]>>
    /\ call.arg.metadata.workspace_packages[2].targets = <<[name |-> "bin2", kind |-> "bin"]>>
    /\ call.ret = Failure("no bin target named")

====
